---- MODULE Spec2Model ----
(***************************************************************************)
(* Model of the round-robin fail-over proxy of                             *)
(* src/fastapi-azureopenai-proxy.py: the shared rotation pointer rr_pos,   *)
(* the lock rr_lock that guards it, the per-request attempt loop of        *)
(* proxy_middleware, the aggregate status chooser                          *)
(* _choose_final_status_and_headers, and the load of the instance list by  *)
(* _load_config when the module is imported.                               *)
(*                                                                         *)
(* One request is one coroutine.  A coroutine can be suspended only at an  *)
(* await (the lock acquisitions, request.body(), client.send(),            *)
(* upstream.aread(), upstream.aclose(), the streaming of the response);    *)
(* each action below is the code from one such point to the next.          *)
(***************************************************************************)
EXTENDS Integers, Sequences, FiniteSets, TLC

(* ---------------------------------------------------------------- bounds *)

\* Largest number of configured instances explored (N ranges over 1..MaxN).
MaxN == 3

\* Number of request slots, i.e. of requests that can be in progress at once.
NumReq == 2

\* Largest number of instances explored when behaviours are checked for
\* progress under fairness.
MaxNLive == 2

\* Largest number of instances explored when the upstreams answer with every
\* status code.
MaxNCodes == 2

\* Instances of the deployments whose outbound requests are examined.
MaxNHdr == 2

Requests == 1..NumReq

(* ------------------------------------------------------------- constants *)

\* "status": None of a transport-failure attempt record.
NoStatus == 0

\* A free rr_lock (asyncio.Lock() as constructed); otherwise the holder's id.
Unlocked == 0

\* Python's None for a missing header value.
None == "<None>"

RETRY_STATUS == {429, 500, 502, 503, 504}

RETRY_4XX == {401, 403, 404}

ERROR_HEADER_SNAPSHOT == <<"content-type", "apim-request-id", "x-ms-request-id", "x-request-id">>

(* ---------------------------------------------------------- header dicts *)

\* A dict of headers is a function from header names to values.
EmptyDict == [h \in {} |-> ""]

\* dict.get(k): the value, or None when the key is absent.
Get(d, k) == IF k \in DOMAIN d THEN d[k] ELSE None

\* Python truthiness of a header value: None and "" are falsy.
Truthy(v) == v # None /\ v # ""

\* {**a, **b}: the keys of both, b's value where both have the key.
Merge(a, b) == [k \in (DOMAIN a) \cup (DOMAIN b) |-> IF k \in DOMAIN b THEN b[k] ELSE a[k]]

\* The elements of a tuple, as a set.
Range(s) == {s[i] : i \in DOMAIN s}

(* ------------------------------------------------------ the config file *)

\* A JSON string is the tuple of its pieces: a blank " ", a slash "/", or a
\* word that neither starts nor ends with a blank or a slash.

\* The value dict.get gives for a key the JSON object does not have.
Absent == <<"<absent>">>

\* What the module finds at CONFIG_PATH: no file, a file that is not JSON, or
\* a JSON object.  Its "instances" value is absent, a list of objects, or
\* some other non-empty JSON value.
ConfigFile(f, t, its, h) ==
    [file |-> f, instances |-> [type |-> t, items |-> its], header_name |-> h]

Entry(ep, key) == [endpoint |-> ep, api_key |-> key]

\* Entries with an endpoint and an api_key: an instance, the same instance
\* spelled with blanks and a trailing slash, and two that differ from it by
\* the endpoint and by the api_key.
GoodEntries ==
    {Entry(<<"https://a">>, <<"k1">>), Entry(<<" ", "https://a", "/">>, <<"k1", " ">>),
     Entry(<<"https://b">>, <<"k1">>), Entry(<<"https://a">>, <<"k2">>)}

\* Entries without one of them: the key is not there, or its value is blank,
\* or the endpoint is made of slashes.
BadEntries ==
    {Entry(Absent, <<"k1">>), Entry(<<" ">>, <<"k1">>), Entry(<<"/", "/">>, <<"k1">>),
     Entry(<<"https://a">>, Absent), Entry(<<"https://a">>, <<" ">>)}

Entries == GoodEntries \cup BadEntries

HeaderNames == {Absent, <<" ", "x-api-key">>}

\* The lists of at most n entries.
EntryLists(n) == UNION {[1..len -> Entries] : len \in 0..n}

\* The config files the load of the module is tried on.
AllConfigs ==
    {ConfigFile("missing", "absent", <<>>, Absent), ConfigFile("not_json", "absent", <<>>, Absent)}
    \cup {ConfigFile("json", t, <<>>, h) : t \in {"absent", "other"}, h \in HeaderNames}
    \cup {ConfigFile("json", "list", its, h) : its \in EntryLists(MaxN), h \in HeaderNames}

\* The config file of a deployment with n distinct instances.
ConfigOf(n) ==
    ConfigFile("json", "list",
               [i \in 1..n |-> [endpoint |-> <<"https://e" \o ToString(i)>>,
                                api_key |-> <<"key" \o ToString(i)>>]],
               Absent)

\* The same deployment with header_name h in its config file.
ConfigWith(n, h) == [ConfigOf(n) EXCEPT !.header_name = h]

\* The header_name values of the deployments whose requests are examined.
HdrHeaderNames == {Absent, <<" ", "x-api-key">>, <<"X-Api-Key">>, <<"Authorization">>}

\* (v or d) for a string value v that may be absent.
Or(v, d) == IF v = Absent \/ v = <<>> THEN d ELSE v

\* s.rstrip(c) for a one-piece c.
RECURSIVE RStrip(_, _)
RStrip(s, c) == IF s # <<>> /\ s[Len(s)] = c THEN RStrip(SubSeq(s, 1, Len(s) - 1), c) ELSE s

\* s.lstrip() of blanks.
RECURSIVE LStrip(_)
LStrip(s) == IF s # <<>> /\ Head(s) = " " THEN LStrip(Tail(s)) ELSE s

\* s.strip()
Strip(s) == RStrip(LStrip(s), " ")

\* Mutant: trailing slashes are kept.
NormEndpointKeepsSlashes(v) == Strip(Or(v, <<>>))

\* ep = (item.get("endpoint") or "").strip().rstrip("/")
NormEndpoint(v) == RStrip(Strip(Or(v, <<>>)), "/")

\* key = (item.get("api_key") or "").strip()
NormKey(v) == Strip(Or(v, <<>>))

\* header_name = (data.get("header_name") or "api-key").strip()
NormHeaderName(v) == Strip(Or(v, <<"api-key">>))

\* _load_config raising.
Raises == [raised |-> TRUE, creds |-> <<>>, header_name |-> <<>>]

\* Mutant: every valid entry is appended, seen or not.
RECURSIVE LoopCredsNoDedup(_, _, _)
LoopCredsNoDedup(items, creds, seen) ==
    IF items = <<>> THEN [raised |-> FALSE, creds |-> creds]
    ELSE LET ep   == NormEndpoint(Head(items).endpoint)
             key  == NormKey(Head(items).api_key)
         IN  IF ep = <<>> \/ key = <<>> THEN [raised |-> TRUE, creds |-> <<>>]
             ELSE LoopCredsNoDedup(Tail(items), Append(creds, <<ep, key>>), seen)

\* The loop over the entries: creds and seen so far, the entries still to
\* come; it raises at the first entry without endpoint or api_key.
RECURSIVE LoopCreds(_, _, _)
LoopCreds(items, creds, seen) ==
    IF items = <<>> THEN [raised |-> FALSE, creds |-> creds]
    ELSE LET ep   == NormEndpoint(Head(items).endpoint)
             key  == NormKey(Head(items).api_key)
             pair == <<ep, key>>
         IN  IF ep = <<>> \/ key = <<>> THEN [raised |-> TRUE, creds |-> <<>>]
             ELSE IF pair \notin seen
               THEN LoopCreds(Tail(items), Append(creds, pair), seen \cup {pair})
               ELSE LoopCreds(Tail(items), creds, seen)

\* _load_config(path) -> (creds, header_name), or an exception.
load_config(cfg) ==
    IF cfg.file # "json" THEN Raises
    ELSE LET instances == IF cfg.instances.type = "absent"
                            THEN [type |-> "list", items |-> <<>>]
                            ELSE cfg.instances
         IN  IF instances.type # "list" \/ instances.items = <<>> THEN Raises
             ELSE LET loop == LoopCreds(instances.items, <<>>, {})
                  IN  IF loop.raised THEN Raises
                      ELSE [raised |-> FALSE, creds |-> loop.creds,
                            header_name |-> NormHeaderName(cfg.header_name)]

(* ------------------------------------------------------------ the state *)

VARIABLES
    config,       \* the file at CONFIG_PATH, as the module finds it
    load_state,   \* "loading", "ok" or "raised": how far the module's load has come
    CREDENTIALS,  \* the list of (endpoint, api_key) pairs _load_config returned
    HEADER_NAME,  \* the header name _load_config returned
    N,            \* len(CREDENTIALS), fixed at module load
    rr_pos,       \* app.state.rr_pos
    rr_lock,      \* app.state.rr_lock: Unlocked or the request holding it
    pc,           \* pc[r]: where request r's coroutine stands
    inbound,      \* inbound[r]: request.headers.get("x-request-id") of request r
    req_id,       \* req_id[r]
    start,        \* start[r]: the snapshot of rr_pos read under the lock
    order_indices,\* order_indices[r]
    attempt_num,  \* attempt_num[r]: position in the enumerate() of the loop
    attempts,     \* attempts[r]: the attempt records collected so far
    upstream,     \* upstream[r]: the upstream response in hand, or NoUpstream
    resp,         \* resp[r]: the response returned to the caller, or NoResp
    relay_end,    \* relay_end[r]: how the streaming of resp[r] ended, or "none"
    client_open,  \* client_open[r]: request r is inside "async with httpx.AsyncClient()"
    disconnected, \* disconnected[r]: the caller of request r has gone away
    request,      \* request[r]: method, path, query, headers and body of the inbound request
    base_headers, \* base_headers[r]: the inbound headers kept for the upstream requests
    body,         \* body[r]: the inbound body as read by the handler, or None
    outbound,     \* history: the requests built for the attempts of request r, in order
    reads,        \* history: number of reads of app.state.rr_pos request r has made
    sent,         \* history: what request r sent to (idx) and what came back, in order
    writes,       \* history: number of writes of rr_pos request r has made
    last_writer,  \* history: the request whose write of rr_pos is the latest
    last_failed,  \* history: start of the request whose all-failed write is the latest write, else -1
    seen_failed   \* history: last_failed as it was when request r read rr_pos

\* What the load of the module fixes.
loaded == <<config, load_state, CREDENTIALS, HEADER_NAME>>

vars == <<loaded, N, rr_pos, rr_lock, pc, inbound, req_id, start, order_indices, attempt_num,
          attempts, upstream, resp, relay_end, client_open, disconnected, request,
          base_headers, body, outbound, reads, sent, writes, last_writer, last_failed,
          seen_failed>>

NoUpstream == [status |-> NoStatus, headers |-> EmptyDict, open |-> FALSE, read |-> "no"]

NoResp == [kind |-> "none", status |-> NoStatus, headers |-> EmptyDict, idx |-> -1,
           attempts |-> <<>>, next_start_index |-> -1]

(* ------------------------------------------------- upstream environment *)

\* Header sets an upstream answers with (names as httpx yields them, lower case).
PlainHeaders == [h \in {"content-type"} |-> "application/json"]

ThrottleHeaders == [h \in {"content-type", "retry-after"} |->
                      IF h = "retry-after" THEN "7" ELSE "application/json"]

\* Headers of an upstream that names the request itself and sends hop-by-hop headers.
HopHeaders == [h \in {"content-type", "x-request-id", "transfer-encoding", "connection"} |->
                 CASE h = "content-type" -> "application/json"
                   [] h = "x-request-id" -> "upstream-id"
                   [] h = "transfer-encoding" -> "chunked"
                   [] h = "connection" -> "keep-alive"]

\* What an upstream may answer: every status class, a 429 with Retry-After,
\* and a success and a terminal answer with the headers above.
AllResponses ==
    {[status |-> s, headers |-> PlainHeaders] :
        s \in {200, 400, 401, 403, 404, 429, 500, 501, 504}}
    \cup {[status |-> 429, headers |-> ThrottleHeaders]}
    \cup {[status |-> s, headers |-> HopHeaders] : s \in {200, 400}}

\* Names of the httpx.HTTPError subclasses client.send may raise, as the
\* words of the class name (type(e).__name__).
AllErrors == {<<"Connect", "Error">>, <<"Read", "Timeout">>}

\* The status codes of HTTP: upstream.status_code.
StatusCodes == 100..599

\* An answer with each status code.
CodeResponses == {[status |-> s, headers |-> PlainHeaders] : s \in StatusCodes}

\* The answers used when several requests run at once: one of each class.
FewResponses == {[status |-> s, headers |-> PlainHeaders] : s \in {200, 400, 429}}

FewErrors == {<<"Connect", "Error">>}

\* Inbound x-request-id header values (None: the header is absent).
AllInboundIds == {None, "", "client-id"}

FewInboundIds == {None}

\* How the streaming of a relayed response can end: the body is sent to its
\* end; the caller disconnects and the response call returns; the caller
\* disconnects and the response call raises; reading the upstream body raises.
AllRelayEnds == {"complete", "disconnect_returns", "disconnect_raises", "error"}

FewRelayEnds == {"complete"}

(* ------------------------------------------------------- pure functions *)

\* uuid.uuid4().hex[:8]: an id no client sent, distinct per request slot.
GeneratedId(r) == "uuid-" \o ToString(r)

\* req_id = request.headers.get("x-request-id") or uuid.uuid4().hex[:8]
RequestId(r, id) == IF Truthy(id) THEN id ELSE GeneratedId(r)

\* Mutant: the order starts one past the pointer (off counted from 1).
OrderIndicesOffByOne(s, n) == [off \in 1..n |-> (s + off) % n]

\* order_indices = [(start + off) % N for off in range(N)]
OrderIndices(s, n) == [off \in 1..n |-> (s + (off - 1)) % n]

\* Mutant: the non-retryable 4xx branch is missing.
ClassifyNoTerminal(status) ==
    IF status \in RETRY_STATUS \/ status \in RETRY_4XX THEN "retryable" ELSE "success"

\* Mutant: every 5xx status is retried.
ClassifyAll5xxRetry(status) ==
    IF status \in RETRY_STATUS \/ status \in RETRY_4XX \/ status >= 500 THEN "retryable"
    ELSE IF 400 <= status /\ status < 500 THEN "terminal"
    ELSE "success"

\* The branch of the attempt loop a status code takes.
Classify(status) ==
    IF status \in RETRY_STATUS \/ status \in RETRY_4XX THEN "retryable"
    ELSE IF 400 <= status /\ status < 500 THEN "terminal"
    ELSE "success"

\* hdrs = {h: upstream.headers.get(h) for h in ERROR_HEADER_SNAPSHOT if upstream.headers.get(h)}
SnapshotHeaders(headers) ==
    [h \in {x \in Range(ERROR_HEADER_SNAPSHOT) : Truthy(Get(headers, x))} |-> headers[h]]

\* The attempt record appended after a transport error.
ErrorAttempt(err) == [status |-> NoStatus, error |-> err, headers |-> EmptyDict]

\* The attempt record appended after a retryable status.
StatusAttempt(up) == [status |-> up.status, error |-> <<>>, headers |-> SnapshotHeaders(up.headers)]

\* Mutant: only an error named exactly "Timeout" counts as a timeout.
HasTimeoutWholeName(e) == e = <<"Timeout">>

\* Mutant: the handler catches the timeouts only.
IsHTTPErrorTimeoutsOnly(e) == e \in {<<"Connect", "Timeout">>, <<"Read", "Timeout">>}

\* except httpx.HTTPError: the transport errors of httpx (connection failure,
\* DNS failure, the four timeouts, read, write and protocol errors) are all
\* subclasses of httpx.HTTPError.
IsHTTPError(e) ==
    e \in {<<"Connect", "Error">>, <<"Connect", "Timeout">>, <<"Read", "Timeout">>,
           <<"Write", "Timeout">>, <<"Pool", "Timeout">>, <<"Read", "Error">>,
           <<"Write", "Error">>, <<"Remote", "Protocol", "Error">>}

\* "Timeout" in e, for an error name e given as its words.
HasTimeout(e) == \E i \in DOMAIN e : e[i] = "Timeout"

\* statuses = [a.get("status") for a in attempts if a.get("status") is not None]
StatusesOf(atts) ==
    LET withStatus == SelectSeq(atts, LAMBDA a : a.status # NoStatus)
    IN  [i \in DOMAIN withStatus |-> withStatus[i].status]

\* hdrs_for(code): the headers of the first attempt with that status, else {}.
hdrs_for(atts, code) ==
    IF \E i \in DOMAIN atts : atts[i].status = code
    THEN atts[CHOOSE i \in DOMAIN atts :
                /\ atts[i].status = code
                /\ \A j \in DOMAIN atts : atts[j].status = code => i <= j].headers
    ELSE EmptyDict

\* The Retry-After hand-over of the 429 branch.
RetryAfterExtra(h) ==
    LET lower == Get(h, "retry-after")
        ra    == IF Truthy(lower) THEN lower ELSE Get(h, "Retry-After")
    IN  IF Truthy(ra) THEN [k \in {"Retry-After"} |-> ra] ELSE EmptyDict

\* Mutant: the 504/timeout rule is tested before the 429 rule.
choose_final_timeout_first(atts) ==
    LET statuses == StatusesOf(atts)
        S        == Range(statuses)
    IN  IF S # {} /\ \A s \in S : s = 404
          THEN [status |-> 404, headers |-> EmptyDict]
        ELSE IF 504 \in S \/ \E i \in DOMAIN atts : HasTimeout(atts[i].error)
          THEN [status |-> 504, headers |-> EmptyDict]
        ELSE IF 429 \in S
          THEN [status |-> 429, headers |-> RetryAfterExtra(hdrs_for(atts, 429))]
        ELSE IF S # {} /\ S \subseteq {401, 403}
          THEN [status |-> IF \A s \in S : s = 401 THEN 401 ELSE 403, headers |-> EmptyDict]
        ELSE [status |-> 502, headers |-> EmptyDict]

\* _choose_final_status_and_headers(attempts) -> (status_code, extra_headers)
choose_final_status_and_headers(atts) ==
    LET statuses == StatusesOf(atts)
        S        == Range(statuses)
    IN  IF S # {} /\ \A s \in S : s = 404
          THEN [status |-> 404, headers |-> EmptyDict]
        ELSE IF 429 \in S
          THEN [status |-> 429, headers |-> RetryAfterExtra(hdrs_for(atts, 429))]
        ELSE IF 504 \in S \/ \E i \in DOMAIN atts : HasTimeout(atts[i].error)
          THEN [status |-> 504, headers |-> EmptyDict]
        ELSE IF S # {} /\ S \subseteq {401, 403}
          THEN [status |-> IF \A s \in S : s = 401 THEN 401 ELSE 403, headers |-> EmptyDict]
        ELSE IF \E s \in S : s >= 500
          THEN [status |-> 502, headers |-> EmptyDict]
        ELSE [status |-> 502, headers |-> EmptyDict]

HOP_BY_HOP == {"connection", "keep-alive", "proxy-authenticate", "proxy-authorization",
               "te", "trailers", "transfer-encoding", "upgrade"}

\* Mutant: x-request-id is set only when the upstream sent none (setdefault).
RelayHeadersSetDefault(headers, rid) ==
    Merge([k \in {"x-request-id"} |-> rid],
          [k \in {x \in DOMAIN headers : x \notin HOP_BY_HOP} |-> headers[k]])

\* resp_headers of a relayed response: hop-by-hop headers dropped, x-request-id stamped.
RelayHeaders(headers, rid) ==
    Merge([k \in {x \in DOMAIN headers : x \notin HOP_BY_HOP} |-> headers[k]],
          [k \in {"x-request-id"} |-> rid])

\* Mutant: the pointer is left on the instance that succeeded.
SuccessPointerNoAdvance(abs_idx, n) == abs_idx % n

\* rr_pos after a success on absolute index abs_idx.
SuccessPointer(abs_idx, n) == (abs_idx + 1) % n

\* Mutant: the all-failed path leaves the pointer on the failing leader.
FailedPointerStay(s, n) == s % n

\* Mutant: the all-failed path resets the pointer.
FailedPointerReset(s, n) == 0

\* Mutant: the all-failed path forgets the modulus.
FailedPointerNoWrap(s, n) == s + 1

\* rr_pos after all candidates failed, for a request that read start s.
FailedPointer(s, n) == (s + 1) % n

(* ------------------------------------------------- the upstream request *)

\* str.lower() on the header names that occur.
Lower(s) ==
    CASE s = "Authorization" -> "authorization"
      [] s = "X-Api-Key" -> "x-api-key"
      [] s = "Connection" -> "connection"
      [] s = "Host" -> "host"
      [] OTHER -> s

\* The Python string a tuple of pieces stands for.
RECURSIVE Join(_)
Join(s) == IF s = <<>> THEN "" ELSE Head(s) \o Join(Tail(s))

\* No inbound request yet.
NoRequest == [method |-> "", path |-> "", query |-> "", headers |-> EmptyDict, body |-> ""]

\* The headers a caller may send besides x-request-id, as the caller wrote them.
CallerHeaders ==
    [h \in {"content-type", "Authorization", "api-key", "x-api-key", "Connection", "Host",
            "transfer-encoding"} |->
        CASE h = "content-type" -> "application/json"
          [] h = "Authorization" -> "Bearer caller"
          [] h = "api-key" -> "caller-key"
          [] h = "x-api-key" -> "caller-key"
          [] h = "Connection" -> "keep-alive"
          [] h = "Host" -> "proxy.local"
          [] OTHER -> "chunked"]

CallerHeaderSets ==
    {{"content-type"}, {"content-type", "Authorization", "api-key"},
     {"content-type", "x-api-key"}, {"content-type", "Connection", "Host", "transfer-encoding"},
     DOMAIN CallerHeaders}

\* Inbound requests: a GET without body and a POST with one, with or without
\* a query string, under each set of caller headers.
AllRequests ==
    {[method |-> mt, path |-> "/openai/deployments/d/chat", query |-> q,
      headers |-> [h \in hs |-> CallerHeaders[h]],
      body |-> IF mt = "GET" THEN "" ELSE "payload"] :
        mt \in {"GET", "POST"}, q \in {"", "api-version=1"}, hs \in CallerHeaderSets}

FewRequests ==
    {[method |-> "POST", path |-> "/openai/deployments/d/chat", query |-> "",
      headers |-> PlainHeaders, body |-> "payload"]}

\* request.headers: the caller's headers, with x-request-id when it was sent.
RequestHeaders(req, id) ==
    IF id = None THEN req.headers ELSE Merge(req.headers, [k \in {"x-request-id"} |-> id])

\* base_headers: the inbound headers under their lower-case names, without the
\* hop-by-hop ones and host, then without "api-key" and "authorization".
BaseHeaders(headers) ==
    LET kept  == {k \in DOMAIN headers : Lower(k) \notin HOP_BY_HOP /\ Lower(k) # "host"}
        names == {Lower(k) : k \in kept} \ {"api-key", "authorization"}
    IN  [n \in names |-> headers[CHOOSE k \in kept : Lower(k) = n]]

\* path_and_query: the path, then "?" and the query when there is one.
PathAndQuery(req) == IF req.query # "" THEN req.path \o "?" \o req.query ELSE req.path

\* headers = dict(base_headers); headers[HEADER_NAME] = api_key;
\* headers.setdefault("x-request-id", req_id)
AttemptHeaders(base, name, api_key, rid) ==
    LET h == Merge(base, [k \in {name} |-> api_key])
    IN  IF "x-request-id" \in DOMAIN h THEN h ELSE Merge(h, [k \in {"x-request-id"} |-> rid])

\* client.build_request(method, url, headers, content): what the proxy hands
\* to httpx for one attempt.
BuildRequest(method, url, headers, content) ==
    [method |-> method, url |-> url, headers |-> headers, content |-> content]

(* ------------------------------------------------------------------ Init *)

\* The state of the application object and of the request slots as constructed.
InitApp ==
    /\ rr_pos = 0
    /\ rr_lock = Unlocked
    /\ pc = [r \in Requests |-> "idle"]
    /\ inbound = [r \in Requests |-> None]
    /\ request = [r \in Requests |-> NoRequest]
    /\ base_headers = [r \in Requests |-> EmptyDict]
    /\ body = [r \in Requests |-> None]
    /\ outbound = [r \in Requests |-> <<>>]
    /\ req_id = [r \in Requests |-> None]
    /\ start = [r \in Requests |-> -1]
    /\ order_indices = [r \in Requests |-> <<>>]
    /\ attempt_num = [r \in Requests |-> 0]
    /\ attempts = [r \in Requests |-> <<>>]
    /\ upstream = [r \in Requests |-> NoUpstream]
    /\ resp = [r \in Requests |-> NoResp]
    /\ relay_end = [r \in Requests |-> "none"]
    /\ client_open = [r \in Requests |-> FALSE]
    /\ disconnected = [r \in Requests |-> FALSE]
    /\ reads = [r \in Requests |-> 0]
    /\ sent = [r \in Requests |-> <<>>]
    /\ writes = [r \in Requests |-> 0]
    /\ last_writer = 0
    /\ last_failed = -1
    /\ seen_failed = [r \in Requests |-> -1]

\* The module has loaded the config of a deployment with 1..MaxN instances.
Init ==
    /\ \E n \in 1..MaxN : config = ConfigOf(n)
    /\ load_state = "ok"
    /\ CREDENTIALS = load_config(config).creds
    /\ HEADER_NAME = load_config(config).header_name
    /\ N = Len(CREDENTIALS)
    /\ InitApp

\* A deployment of at most MaxNHdr instances under each header name.
InitHdr ==
    /\ \E n \in 1..MaxNHdr, h \in HdrHeaderNames : config = ConfigWith(n, h)
    /\ load_state = "ok"
    /\ CREDENTIALS = load_config(config).creds
    /\ HEADER_NAME = load_config(config).header_name
    /\ N = Len(CREDENTIALS)
    /\ InitApp

\* The module is about to load some config file.
InitLoad ==
    /\ config \in AllConfigs
    /\ load_state = "loading"
    /\ CREDENTIALS = <<>>
    /\ HEADER_NAME = <<>>
    /\ N = 0
    /\ InitApp

(* --------------------------------------------------------------- actions *)

\* CREDENTIALS, HEADER_NAME = _load_config(CONFIG_PATH); N = len(CREDENTIALS).
\* When _load_config raises the import fails and there is no application.
LoadConfig ==
    /\ load_state = "loading"
    /\ LET res == load_config(config)
       IN  IF res.raised
             THEN /\ load_state' = "raised"
                  /\ UNCHANGED <<CREDENTIALS, HEADER_NAME, N>>
             ELSE /\ load_state' = "ok"
                  /\ CREDENTIALS' = res.creds
                  /\ HEADER_NAME' = res.header_name
                  /\ N' = Len(res.creds)
    /\ UNCHANGED <<config, request, base_headers, body, outbound, rr_pos, rr_lock, pc, inbound, req_id, start, order_indices,
                   attempt_num, attempts, upstream, resp, relay_end, client_open,
                   disconnected, reads, sent, writes, last_writer, last_failed,
                   seen_failed>>

\* The candidate of the current loop iteration: abs_idx of enumerate(order).
AbsIdx(r) == order_indices[r][attempt_num[r]]

\* Mutant: the inbound body goes out with the first attempt only.
OutboundRequestBodyOnce(r) ==
    LET cred == CREDENTIALS[AbsIdx(r) + 1]
    IN  BuildRequest(request[r].method,
                     Join(cred[1]) \o PathAndQuery(request[r]),
                     AttemptHeaders(base_headers[r], Join(HEADER_NAME), Join(cred[2]), req_id[r]),
                     IF attempt_num[r] = 1 THEN body[r] ELSE "")

\* The request built for the current candidate: target_url is its endpoint
\* followed by path_and_query, the headers carry its api_key.
OutboundRequest(r) ==
    LET cred == CREDENTIALS[AbsIdx(r) + 1]
    IN  BuildRequest(request[r].method,
                     Join(cred[1]) \o PathAndQuery(request[r]),
                     AttemptHeaders(base_headers[r], Join(HEADER_NAME), Join(cred[2]), req_id[r]),
                     body[r])

\* History records: the candidate contacted and the answer it gave.
SentError(i, e) == [idx |-> i, status |-> NoStatus, error |-> e, headers |-> EmptyDict]

SentResponse(i, u) == [idx |-> i, status |-> u.status, error |-> <<>>, headers |-> u.headers]

\* A new inbound request enters proxy_middleware in slot r (a finished slot is
\* reused): its request id is set and it goes to acquire the lock.
Arrive(r, inbound_ids, requests) ==
    /\ load_state = "ok"
    /\ pc[r] \in {"idle", "done", "raised"}
    /\ \E id \in inbound_ids :
          /\ inbound' = [inbound EXCEPT ![r] = id]
          /\ req_id' = [req_id EXCEPT ![r] = RequestId(r, id)]
    /\ \E q \in requests : request' = [request EXCEPT ![r] = q]
    /\ base_headers' = [base_headers EXCEPT ![r] = EmptyDict]
    /\ body' = [body EXCEPT ![r] = None]
    /\ outbound' = [outbound EXCEPT ![r] = <<>>]
    /\ relay_end' = [relay_end EXCEPT ![r] = "none"]
    /\ client_open' = [client_open EXCEPT ![r] = FALSE]
    /\ disconnected' = [disconnected EXCEPT ![r] = FALSE]
    /\ reads' = [reads EXCEPT ![r] = 0]
    /\ pc' = [pc EXCEPT ![r] = "lock_read"]
    /\ start' = [start EXCEPT ![r] = -1]
    /\ order_indices' = [order_indices EXCEPT ![r] = <<>>]
    /\ attempt_num' = [attempt_num EXCEPT ![r] = 0]
    /\ attempts' = [attempts EXCEPT ![r] = <<>>]
    /\ upstream' = [upstream EXCEPT ![r] = NoUpstream]
    /\ resp' = [resp EXCEPT ![r] = NoResp]
    /\ sent' = [sent EXCEPT ![r] = <<>>]
    /\ writes' = [writes EXCEPT ![r] = 0]
    /\ seen_failed' = [seen_failed EXCEPT ![r] = -1]
    /\ UNCHANGED <<loaded, N, rr_pos, rr_lock, last_writer, last_failed>>

\* async with rr_lock (before the read): the lock is taken when it is free.
AcquireRead(r) ==
    /\ pc[r] = "lock_read"
    /\ rr_lock = Unlocked
    /\ rr_lock' = r
    /\ pc' = [pc EXCEPT ![r] = "read"]
    /\ UNCHANGED <<loaded, request, base_headers, body, outbound, reads, client_open,
                   disconnected, inbound, relay_end, N, rr_pos, req_id, start,
                   order_indices, attempt_num, attempts, upstream, resp, sent, writes,
                   last_writer, last_failed, seen_failed>>

\* Mutant: the lock is not released after the read (the rest of the handler
\* runs inside the "async with" block).
ReadStartKeepsLock(r) ==
    /\ pc[r] = "read"
    /\ start' = [start EXCEPT ![r] = rr_pos]
    /\ order_indices' = [order_indices EXCEPT ![r] = OrderIndices(rr_pos, N)]
    /\ seen_failed' = [seen_failed EXCEPT ![r] = last_failed]
    /\ pc' = [pc EXCEPT ![r] = "body"]
    /\ reads' = [reads EXCEPT ![r] = @ + 1]
    /\ base_headers' = [base_headers EXCEPT ![r] = BaseHeaders(RequestHeaders(request[r], inbound[r]))]
    /\ UNCHANGED <<loaded, request, body, outbound, client_open, disconnected, inbound,
                   relay_end, N, rr_pos, rr_lock, req_id, attempt_num, attempts, upstream,
                   resp, sent, writes, last_writer, last_failed>>

\* start = rr_pos; the lock is released; the attempt order and the base
\* headers are computed; the coroutine then awaits the inbound body.
ReadStart(r) ==
    /\ pc[r] = "read"
    /\ start' = [start EXCEPT ![r] = rr_pos]
    /\ rr_lock' = Unlocked
    /\ order_indices' = [order_indices EXCEPT ![r] = OrderIndices(rr_pos, N)]
    /\ seen_failed' = [seen_failed EXCEPT ![r] = last_failed]
    /\ pc' = [pc EXCEPT ![r] = "body"]
    /\ reads' = [reads EXCEPT ![r] = @ + 1]
    /\ base_headers' = [base_headers EXCEPT ![r] = BaseHeaders(RequestHeaders(request[r], inbound[r]))]
    /\ UNCHANGED <<loaded, request, body, outbound, client_open, disconnected, inbound,
                   relay_end, N, rr_pos, req_id, attempt_num, attempts, upstream, resp,
                   sent, writes, last_writer, last_failed>>

\* body = await request.body(); attempts = []; the client is opened and the
\* loop starts with its first candidate.
ReadBody(r) ==
    /\ pc[r] = "body"
    /\ attempts' = [attempts EXCEPT ![r] = <<>>]
    /\ attempt_num' = [attempt_num EXCEPT ![r] = 1]
    /\ pc' = [pc EXCEPT ![r] = "send"]
    /\ client_open' = [client_open EXCEPT ![r] = TRUE]
    /\ body' = [body EXCEPT ![r] = request[r].body]
    /\ UNCHANGED <<loaded, request, base_headers, outbound, reads, disconnected, inbound,
                   relay_end, N, rr_pos, rr_lock, req_id, start, order_indices, upstream,
                   resp, sent, writes, last_writer, last_failed, seen_failed>>

\* Mutant: the loop ends after the first failed candidate.
ContinuePcStopsEarly(r) == "lock_fail"

\* "continue": the next candidate, or the end of the loop when none is left.
ContinuePc(r) == IF attempt_num[r] < N THEN "send" ELSE "lock_fail"

ContinueNum(r) == IF attempt_num[r] < N THEN attempt_num[r] + 1 ELSE attempt_num[r]

\* await client.send(...) raises: an httpx.HTTPError is caught, the attempt is
\* recorded with no status and the loop continues; any other exception leaves
\* the handler (and the client's "async with" block).
SendTransportError(r, errors) ==
    /\ pc[r] = "send"
    /\ \E e \in errors :
          IF IsHTTPError(e)
            THEN /\ attempts' = [attempts EXCEPT ![r] = Append(@, ErrorAttempt(e))]
                 /\ sent' = [sent EXCEPT ![r] = Append(@, SentError(AbsIdx(r), e))]
                 /\ attempt_num' = [attempt_num EXCEPT ![r] = ContinueNum(r)]
                 /\ pc' = [pc EXCEPT ![r] = ContinuePc(r)]
                 /\ client_open' = [client_open EXCEPT ![r] = ContinuePc(r) = "send"]
            ELSE /\ sent' = [sent EXCEPT ![r] = Append(@, SentError(AbsIdx(r), e))]
                 /\ pc' = [pc EXCEPT ![r] = "raised"]
                 /\ client_open' = [client_open EXCEPT ![r] = FALSE]
                 /\ UNCHANGED <<attempts, attempt_num>>
    /\ outbound' = [outbound EXCEPT ![r] = Append(@, OutboundRequest(r))]
    /\ UNCHANGED <<loaded, request, base_headers, body, reads, disconnected, inbound,
                   relay_end, writes, N, rr_pos, rr_lock, req_id, start, order_indices,
                   upstream, resp, last_writer, last_failed, seen_failed>>

\* client.send returns a retryable status: the headers are snapshot and the
\* coroutine awaits the body (upstream.aread()).
SendRetryable(r, responses) ==
    /\ pc[r] = "send"
    /\ \E u \in responses :
          /\ Classify(u.status) = "retryable"
          /\ upstream' = [upstream EXCEPT ![r] =
                            [status |-> u.status, headers |-> u.headers, open |-> TRUE, read |-> "no"]]
          /\ sent' = [sent EXCEPT ![r] = Append(@, SentResponse(AbsIdx(r), u))]
    /\ pc' = [pc EXCEPT ![r] = "aread"]
    /\ outbound' = [outbound EXCEPT ![r] = Append(@, OutboundRequest(r))]
    /\ UNCHANGED <<loaded, request, base_headers, body, reads, client_open, disconnected,
                   inbound, relay_end, writes, N, rr_pos, rr_lock, req_id, start,
                   order_indices, attempt_num, attempts, resp, last_writer, last_failed,
                   seen_failed>>

\* data = await upstream.aread(), or b"" when it raises; then the finally
\* clause awaits upstream.aclose().
Aread(r) ==
    /\ pc[r] = "aread"
    /\ \E outcome \in {"ok", "raised"} :
          upstream' = [upstream EXCEPT ![r].read = outcome]
    /\ pc' = [pc EXCEPT ![r] = "aclose"]
    /\ UNCHANGED <<loaded, request, base_headers, body, outbound, reads, client_open,
                   disconnected, inbound, relay_end, N, rr_pos, rr_lock, req_id, start,
                   order_indices, attempt_num, attempts, resp, sent, writes, last_writer,
                   last_failed, seen_failed>>

\* Mutant: the finally clause does not close the upstream response.
AcloseLeavesOpen(r) ==
    /\ pc[r] = "aclose"
    /\ attempts' = [attempts EXCEPT ![r] = Append(@, StatusAttempt(upstream[r]))]
    /\ attempt_num' = [attempt_num EXCEPT ![r] = ContinueNum(r)]
    /\ pc' = [pc EXCEPT ![r] = ContinuePc(r)]
    /\ client_open' = [client_open EXCEPT ![r] = ContinuePc(r) = "send"]
    /\ UNCHANGED <<loaded, request, base_headers, body, outbound, reads, disconnected,
                   inbound, relay_end, N, rr_pos, rr_lock, req_id, start, order_indices,
                   upstream, resp, sent, writes, last_writer, last_failed, seen_failed>>

\* upstream.aclose() returns: the attempt record is appended and the loop
\* continues.
Aclose(r) ==
    /\ pc[r] = "aclose"
    /\ attempts' = [attempts EXCEPT ![r] = Append(@, StatusAttempt(upstream[r]))]
    /\ upstream' = [upstream EXCEPT ![r] = NoUpstream]
    /\ attempt_num' = [attempt_num EXCEPT ![r] = ContinueNum(r)]
    /\ pc' = [pc EXCEPT ![r] = ContinuePc(r)]
    /\ client_open' = [client_open EXCEPT ![r] = ContinuePc(r) = "send"]
    /\ UNCHANGED <<loaded, request, base_headers, body, outbound, reads, disconnected,
                   inbound, relay_end, N, rr_pos, rr_lock, req_id, start, order_indices,
                   resp, sent, writes, last_writer, last_failed, seen_failed>>

\* client.send returns a non-retryable 4xx: it is returned as a
\* StreamingResponse at once; rr_pos is not touched.
SendTerminal(r, responses) ==
    /\ pc[r] = "send"
    /\ \E u \in responses :
          /\ Classify(u.status) = "terminal"
          /\ upstream' = [upstream EXCEPT ![r] =
                            [status |-> u.status, headers |-> u.headers, open |-> TRUE, read |-> "no"]]
          /\ sent' = [sent EXCEPT ![r] = Append(@, SentResponse(AbsIdx(r), u))]
          /\ resp' = [resp EXCEPT ![r] =
                        [kind |-> "terminal", status |-> u.status,
                         headers |-> RelayHeaders(u.headers, req_id[r]),
                         idx |-> AbsIdx(r), attempts |-> <<>>, next_start_index |-> -1]]
    /\ pc' = [pc EXCEPT ![r] = "relay"]
    /\ client_open' = [client_open EXCEPT ![r] = FALSE]
    /\ outbound' = [outbound EXCEPT ![r] = Append(@, OutboundRequest(r))]
    /\ UNCHANGED <<loaded, request, base_headers, body, reads, disconnected, inbound,
                   relay_end, writes, N, rr_pos, rr_lock, req_id, start, order_indices,
                   attempt_num, attempts, last_writer, last_failed, seen_failed>>

\* client.send returns any other status: success; the coroutine goes to
\* take the lock for the pointer write.
SendSuccess(r, responses) ==
    /\ pc[r] = "send"
    /\ \E u \in responses :
          /\ Classify(u.status) = "success"
          /\ upstream' = [upstream EXCEPT ![r] =
                            [status |-> u.status, headers |-> u.headers, open |-> TRUE, read |-> "no"]]
          /\ sent' = [sent EXCEPT ![r] = Append(@, SentResponse(AbsIdx(r), u))]
    /\ pc' = [pc EXCEPT ![r] = "lock_ok"]
    /\ outbound' = [outbound EXCEPT ![r] = Append(@, OutboundRequest(r))]
    /\ UNCHANGED <<loaded, request, base_headers, body, reads, client_open, disconnected,
                   inbound, relay_end, writes, N, rr_pos, rr_lock, req_id, start,
                   order_indices, attempt_num, attempts, resp, last_writer, last_failed,
                   seen_failed>>

\* async with rr_lock (success path).
AcquireSuccess(r) ==
    /\ pc[r] = "lock_ok"
    /\ rr_lock = Unlocked
    /\ rr_lock' = r
    /\ pc' = [pc EXCEPT ![r] = "write_ok"]
    /\ UNCHANGED <<loaded, request, base_headers, body, outbound, reads, client_open,
                   disconnected, inbound, relay_end, N, rr_pos, req_id, start,
                   order_indices, attempt_num, attempts, upstream, resp, sent, writes,
                   last_writer, last_failed, seen_failed>>

\* Mutant: the pointer is written only when it still has the value the request
\* read (the first of several concurrent writes wins).
WriteSuccessIfUnmoved(r) ==
    /\ pc[r] = "write_ok"
    /\ rr_pos' = IF rr_pos = start[r] THEN SuccessPointer(AbsIdx(r), N) ELSE rr_pos
    /\ rr_lock' = Unlocked
    /\ resp' = [resp EXCEPT ![r] =
                  [kind |-> "success", status |-> upstream[r].status,
                   headers |-> RelayHeaders(upstream[r].headers, req_id[r]),
                   idx |-> AbsIdx(r), attempts |-> <<>>, next_start_index |-> -1]]
    /\ writes' = [writes EXCEPT ![r] = @ + 1]
    /\ last_writer' = r
    /\ last_failed' = -1
    /\ pc' = [pc EXCEPT ![r] = "relay"]
    /\ client_open' = [client_open EXCEPT ![r] = FALSE]
    /\ reads' = [reads EXCEPT ![r] = @ + 1]
    /\ UNCHANGED <<loaded, request, base_headers, body, outbound, disconnected, inbound,
                   relay_end, N, req_id, start, order_indices, attempt_num, attempts,
                   upstream, sent, seen_failed>>

\* rr_pos = (abs_idx + 1) % N; the lock is released and the StreamingResponse
\* is returned.
WriteSuccess(r) ==
    /\ pc[r] = "write_ok"
    /\ rr_pos' = SuccessPointer(AbsIdx(r), N)
    /\ rr_lock' = Unlocked
    /\ resp' = [resp EXCEPT ![r] =
                  [kind |-> "success", status |-> upstream[r].status,
                   headers |-> RelayHeaders(upstream[r].headers, req_id[r]),
                   idx |-> AbsIdx(r), attempts |-> <<>>, next_start_index |-> -1]]
    /\ writes' = [writes EXCEPT ![r] = @ + 1]
    /\ last_writer' = r
    /\ last_failed' = -1
    /\ pc' = [pc EXCEPT ![r] = "relay"]
    /\ client_open' = [client_open EXCEPT ![r] = FALSE]
    /\ reads' = [reads EXCEPT ![r] = @ + 1]
    /\ UNCHANGED <<loaded, request, base_headers, body, outbound, disconnected, inbound,
                   relay_end, N, req_id, start, order_indices, attempt_num, attempts,
                   upstream, sent, seen_failed>>

\* The background task of a StreamingResponse is awaited after the call that
\* streams the body has returned: not when that call raises.
BackgroundRuns(e) == e \in {"complete", "disconnect_returns"}

\* The StreamingResponse sends upstream.aiter_raw() to the caller; when the
\* streaming returns, its background task closes the upstream response
\* (upstream.aclose); nothing else of the handler closes it.
Relay(r, ends) ==
    /\ pc[r] = "relay"
    /\ \E e \in ends :
          /\ disconnected[r] => e \in {"disconnect_returns", "disconnect_raises"}
          /\ relay_end' = [relay_end EXCEPT ![r] = e]
          /\ disconnected' = [disconnected EXCEPT ![r] =
                                 @ \/ e \in {"disconnect_returns", "disconnect_raises"}]
          /\ upstream' = [upstream EXCEPT ![r] = IF BackgroundRuns(e) THEN NoUpstream ELSE @]
    /\ pc' = [pc EXCEPT ![r] = "done"]
    /\ UNCHANGED <<loaded, request, base_headers, body, outbound, reads, client_open,
                   inbound, N, rr_pos, rr_lock, req_id, start, order_indices, attempt_num,
                   attempts, resp, sent, writes, last_writer, last_failed, seen_failed>>

\* The caller of request r goes away while the handler is between the read of
\* the inbound body and the return of its response.  The handler has no code
\* that looks for it (no request.is_disconnected(), no receive()): its
\* coroutine goes on as it stands.
ClientDisconnect(r) ==
    /\ pc[r] \in {"send", "aread", "aclose", "lock_ok", "write_ok", "lock_fail", "write_fail"}
    /\ ~disconnected[r]
    /\ disconnected' = [disconnected EXCEPT ![r] = TRUE]
    /\ UNCHANGED <<loaded, request, base_headers, body, outbound, reads, client_open,
                   inbound, relay_end, N, rr_pos, rr_lock, pc, req_id, start,
                   order_indices, attempt_num, attempts, upstream, resp, sent, writes,
                   last_writer, last_failed, seen_failed>>

\* async with rr_lock (all-failed path, after the loop and the client's exit).
AcquireFailed(r) ==
    /\ pc[r] = "lock_fail"
    /\ rr_lock = Unlocked
    /\ rr_lock' = r
    /\ pc' = [pc EXCEPT ![r] = "write_fail"]
    /\ UNCHANGED <<loaded, request, base_headers, body, outbound, reads, client_open,
                   disconnected, inbound, relay_end, N, rr_pos, req_id, start,
                   order_indices, attempt_num, attempts, upstream, resp, sent, writes,
                   last_writer, last_failed, seen_failed>>

\* Mutant: the all-failed path returns without releasing the lock.
WriteFailedKeepsLock(r) ==
    /\ pc[r] = "write_fail"
    /\ rr_pos' = FailedPointer(start[r], N)
    /\ LET final == choose_final_status_and_headers(attempts[r])
       IN  resp' = [resp EXCEPT ![r] =
                      [kind |-> "aggregate", status |-> final.status,
                       headers |-> Merge([k \in {"x-request-id"} |-> req_id[r]], final.headers),
                       idx |-> -1, attempts |-> attempts[r], next_start_index |-> rr_pos']]
    /\ writes' = [writes EXCEPT ![r] = @ + 1]
    /\ last_writer' = r
    /\ last_failed' = start[r]
    /\ pc' = [pc EXCEPT ![r] = "done"]
    /\ reads' = [reads EXCEPT ![r] = @ + 2]
    /\ UNCHANGED <<loaded, request, base_headers, body, outbound, client_open,
                   disconnected, inbound, relay_end, N, rr_lock, req_id, start,
                   order_indices, attempt_num, attempts, upstream, sent, seen_failed>>

\* Mutant: the payload reports the pointer value found before the write.
WriteFailedReportsOld(r) ==
    /\ pc[r] = "write_fail"
    /\ rr_pos' = FailedPointer(start[r], N)
    /\ rr_lock' = Unlocked
    /\ LET final == choose_final_status_and_headers(attempts[r])
       IN  resp' = [resp EXCEPT ![r] =
                      [kind |-> "aggregate", status |-> final.status,
                       headers |-> Merge([k \in {"x-request-id"} |-> req_id[r]], final.headers),
                       idx |-> -1, attempts |-> attempts[r], next_start_index |-> rr_pos]]
    /\ writes' = [writes EXCEPT ![r] = @ + 1]
    /\ last_writer' = r
    /\ last_failed' = start[r]
    /\ pc' = [pc EXCEPT ![r] = "done"]
    /\ reads' = [reads EXCEPT ![r] = @ + 2]
    /\ UNCHANGED <<loaded, request, base_headers, body, outbound, client_open,
                   disconnected, inbound, relay_end, N, req_id, start, order_indices,
                   attempt_num, attempts, upstream, sent, seen_failed>>

\* rr_pos = (start + 1) % N; the lock is released; the aggregate status and
\* headers are chosen and the JSONResponse is returned.
WriteFailed(r) ==
    /\ pc[r] = "write_fail"
    /\ rr_pos' = FailedPointer(start[r], N)
    /\ rr_lock' = Unlocked
    /\ LET final == choose_final_status_and_headers(attempts[r])
       IN  resp' = [resp EXCEPT ![r] =
                      [kind |-> "aggregate", status |-> final.status,
                       headers |-> Merge([k \in {"x-request-id"} |-> req_id[r]], final.headers),
                       idx |-> -1, attempts |-> attempts[r], next_start_index |-> rr_pos']]
    /\ writes' = [writes EXCEPT ![r] = @ + 1]
    /\ last_writer' = r
    /\ last_failed' = start[r]
    /\ pc' = [pc EXCEPT ![r] = "done"]
    /\ reads' = [reads EXCEPT ![r] = @ + 2]
    /\ UNCHANGED <<loaded, request, base_headers, body, outbound, client_open,
                   disconnected, inbound, relay_end, N, req_id, start, order_indices,
                   attempt_num, attempts, upstream, sent, seen_failed>>

(* ------------------------------------------------------- specifications *)

\* One step of request r, the environment answering from the given sets.
Step(r, inbound_ids, requests, responses, errors, ends) ==
    \/ Arrive(r, inbound_ids, requests)
    \/ AcquireRead(r)
    \/ ReadStart(r)
    \/ ReadBody(r)
    \/ SendTransportError(r, errors)
    \/ SendRetryable(r, responses)
    \/ Aread(r)
    \/ Aclose(r)
    \/ SendTerminal(r, responses)
    \/ SendSuccess(r, responses)
    \/ AcquireSuccess(r)
    \/ WriteSuccess(r)
    \/ Relay(r, ends)
    \/ AcquireFailed(r)
    \/ WriteFailed(r)

\* Concurrent requests, one answer of each class.
Next == \E r \in Requests : Step(r, FewInboundIds, FewRequests, FewResponses, FewErrors, FewRelayEnds)

Spec == Init /\ [][Next]_vars

\* One request after the other, every answer.
NextSeq == Step(1, AllInboundIds, FewRequests, AllResponses, AllErrors, AllRelayEnds) \/ ClientDisconnect(1)

SpecSeq == Init /\ [][NextSeq]_vars

\* One request after the other, the upstreams answering with any status code.
NextCodes == Step(1, FewInboundIds, FewRequests, CodeResponses, FewErrors, FewRelayEnds)

InitCodes == Init /\ N <= MaxNCodes

SpecCodes == InitCodes /\ [][NextCodes]_vars

\* The load of the module on any config file, and one request after the
\* other once it has loaded.
NextLoad == LoadConfig \/ Step(1, FewInboundIds, FewRequests, FewResponses, FewErrors, FewRelayEnds)

SpecLoad == InitLoad /\ [][NextLoad]_vars

\* The requests whose upstream calls all return; request 1's may stall forever.
Responsive == Requests \ {1}

\* client.send of request r returns, with whatever outcome.
SendReturns(r) ==
    \/ SendTransportError(r, FewErrors)
    \/ SendRetryable(r, FewResponses)
    \/ SendTerminal(r, FewResponses)
    \/ SendSuccess(r, FewResponses)

\* The steps a coroutine takes without being suspended: those inside the lock.
InRegionStep(r) == ReadStart(r) \/ WriteSuccess(r) \/ WriteFailed(r)

\* An acquisition of rr_lock by request r.
Acquire(r) == AcquireRead(r) \/ AcquireSuccess(r) \/ AcquireFailed(r)

\* A network await of request r returns.
IOReturns(r) == ReadBody(r) \/ SendReturns(r) \/ Aread(r) \/ Aclose(r) \/ Relay(r, FewRelayEnds)

\* The event loop runs every coroutine that can run: the code between two
\* awaits always completes (weak fairness of the steps inside the lock), the
\* lock wakes its waiters in arrival order, so a waiter is not passed over for
\* ever (strong fairness of the acquisitions), and the network calls of the
\* responsive requests return.  Nothing obliges a client to send a request,
\* nor request 1's network calls to return.
Fairness ==
    /\ \A r \in Requests : WF_vars(InRegionStep(r)) /\ SF_vars(Acquire(r))
    /\ \A r \in Responsive : WF_vars(IOReturns(r))

InitLive == Init /\ N <= MaxNLive

SpecLive == InitLive /\ [][Next]_vars /\ Fairness

\* One request after the other, over every inbound request and header set,
\* for each configured header name.
NextHdr == Step(1, AllInboundIds, AllRequests, FewResponses, FewErrors, FewRelayEnds)

SpecHdr == InitHdr /\ [][NextHdr]_vars

(* ----------------------------------------------------------------- claims *)

\* The last element of a non-empty tuple.
Last(q) == q[Len(q)]

\* A status of the retry set, written out as the table has it.
InRetryTable(status) == status \in {429, 500, 502, 503, 504, 401, 403, 404}

\* An answer after which the loop goes on: a transport failure or a retryable status.
IsFailure(a) == a.status = NoStatus \/ InRetryTable(a.status)

\* A 4xx status outside the retry set.
IsTerminal4xx(status) == status \in 400..499 /\ status \notin {401, 403, 404, 429}

\* C1: a request whose relayed success response came from absolute index i,
\* and after whose write no other request has written the pointer, leaves
\* rr_pos = (i + 1) mod N.
C1_SuccessAdvancesPointer ==
    \A r \in Requests :
        (resp[r].kind = "success" /\ last_writer = r)
            => /\ resp[r].idx = Last(sent[r]).idx
               /\ rr_pos = (Last(sent[r]).idx + 1) % N

\* C1 witness: with three instances a request failed over and succeeded on the
\* last index, so the pointer wrapped to 0, and the request has returned.
C1_Witness ==
    \E r \in Requests :
        /\ N = 3 /\ pc[r] = "done" /\ resp[r].kind = "success" /\ last_writer = r
        /\ Len(sent[r]) >= 2 /\ Last(sent[r]).idx = 2 /\ rr_pos = 0

\* C3: once a candidate has answered with a 4xx outside the retry set, that
\* answer is the last one the request ever gets, it is the response relayed,
\* and the request has made no write of rr_pos: the pointer is what the
\* request read at its start.
C3_TerminalLeavesPointer ==
    \A r \in Requests : \A k \in DOMAIN sent[r] :
        IsTerminal4xx(sent[r][k].status)
            => /\ k = Len(sent[r])
               /\ pc[r] \in {"relay", "done"}
               /\ resp[r].kind = "terminal"
               /\ resp[r].status = sent[r][k].status
               /\ resp[r].idx = sent[r][k].idx
               /\ writes[r] = 0
               /\ rr_pos = start[r]

\* C3 witness: pointer at 1, first candidate retryable, second one a terminal
\* 400, relayed and finished with the pointer still 1.
C3_Witness ==
    \E r \in Requests :
        /\ N = 3 /\ start[r] = 1 /\ pc[r] = "done" /\ resp[r].kind = "terminal"
        /\ Len(sent[r]) = 2 /\ IsFailure(sent[r][1]) /\ sent[r][2].status = 400
        /\ rr_pos = 1

\* C4: a request that returns the aggregate failure response has contacted all
\* N candidates, each ending in a transport failure or a retryable status, has
\* written rr_pos once, to (start + 1) mod N, and while no other request
\* writes after it the pointer is (start + 1) mod N.
C4_AllFailedAdvancesByOne ==
    \A r \in Requests :
        resp[r].kind = "aggregate"
            => /\ Len(sent[r]) = N
               /\ \A k \in DOMAIN sent[r] : IsFailure(sent[r][k])
               /\ writes[r] = 1
               /\ resp[r].next_start_index = (start[r] + 1) % N
               /\ (last_writer = r => rr_pos = (start[r] + 1) % N)

\* C4 witness: three instances, start 0, all three answered 429, pointer 1.
C4_Witness ==
    \E r \in Requests :
        /\ N = 3 /\ start[r] = 0 /\ resp[r].kind = "aggregate" /\ last_writer = r
        /\ \A k \in DOMAIN sent[r] : sent[r][k].status = 429
        /\ rr_pos = 1

\* C5 as stated, for every N >= 1: a request that read the pointer when the
\* latest write was the all-failed write of a request started at s does not
\* contact s first.
C5_AsStated ==
    \A r \in Requests :
        (seen_failed[r] >= 0 /\ Len(sent[r]) >= 1) => sent[r][1].idx # seen_failed[r]

\* C5 amended: with at least two instances, a request that read the pointer
\* when the latest write was the all-failed write of a request started at s
\* does not contact s first.
C5_NextSkipsFailedLeader ==
    N >= 2 => C5_AsStated

\* C5 witness: two or more instances, and a request that followed an aggregate
\* failure has sent its first attempt.
C5_Witness ==
    \E r \in Requests :
        /\ N >= 2 /\ seen_failed[r] >= 0 /\ Len(sent[r]) >= 1
        /\ sent[r][1].idx = (seen_failed[r] + 1) % N

\* C6: rr_pos is 0 at startup, stays in [0, N) in every reachable state, and
\* changes only in a step that is the success write or the all-failed write of
\* some request.
C6_PointerInRange ==
    /\ rr_pos = 0
    /\ [](rr_pos \in 0..(N - 1))
    /\ [][rr_pos' # rr_pos =>
            \E r \in Requests : /\ pc[r] \in {"write_ok", "write_fail"}
                                /\ pc'[r] \in {"relay", "done"}
                                /\ writes'[r] = writes[r] + 1]_vars

\* C6 witness: two requests, one ended in success and one in aggregate
\* failure, and the pointer is on the last index.
C6_Witness ==
    \E r1, r2 \in Requests :
        /\ N = 3 /\ rr_pos = N - 1
        /\ resp[r1].kind = "success" /\ resp[r2].kind = "aggregate"

\* The positions at which a coroutine is suspended on the network.
AwaitingIO == {"body", "send", "aread", "aclose", "relay"}

\* The positions inside an "async with rr_lock" block.
InRegion == {"read", "write_ok", "write_fail"}

\* C8: the lock is held exactly by the request that stands on its one read or
\* its one write of rr_pos, never by a request awaiting the inbound body, an
\* upstream send, read or close; at most one request is in the region; and
\* the step a holder takes is that read or that write, and releases the lock.
C8_LockOnlyAroundPointer ==
    /\ [](/\ \A r \in Requests : (rr_lock = r) <=> (pc[r] \in InRegion)
          /\ \A r \in Requests : pc[r] \in AwaitingIO => rr_lock # r
          /\ Cardinality({r \in Requests : pc[r] \in InRegion}) <= 1)
    /\ [][\A r \in Requests :
            (rr_lock = r /\ pc'[r] # pc[r])
                => /\ rr_lock' = Unlocked
                   /\ \/ pc[r] = "read" /\ start'[r] = rr_pos /\ rr_pos' = rr_pos
                      \/ pc[r] \in {"write_ok", "write_fail"} /\ writes'[r] = writes[r] + 1]_vars

\* C8 witness: one request is inside the region while the other is awaiting
\* an upstream send.
C8_Witness ==
    \E r1, r2 \in Requests :
        /\ pc[r1] = "write_ok" /\ rr_lock = r1
        /\ pc[r2] = "send" /\ Len(sent[r2]) >= 1

\* C2: the candidates a request has contacted are, in order, (start + 0) mod N,
\* (start + 1) mod N, ...: at most N of them and none twice; every one before
\* the last ended in a transport failure or a retryable status; a candidate
\* that answered otherwise is the last one contacted, the request never sends
\* again, and that candidate's response is the one relayed.
C2_AttemptOrder ==
    \A r \in Requests :
        /\ Len(sent[r]) <= N
        /\ \A k \in DOMAIN sent[r] : sent[r][k].idx = (start[r] + (k - 1)) % N
        /\ \A j, k \in DOMAIN sent[r] : j # k => sent[r][j].idx # sent[r][k].idx
        /\ \A k \in DOMAIN sent[r] : k < Len(sent[r]) => IsFailure(sent[r][k])
        /\ (Len(sent[r]) >= 1 /\ ~IsFailure(Last(sent[r])))
              => /\ pc[r] \in {"lock_ok", "write_ok", "relay", "done"}
                 /\ pc[r] \in {"relay", "done"}
                       => /\ resp[r].kind \in {"success", "terminal"}
                          /\ resp[r].idx = Last(sent[r]).idx
                          /\ resp[r].status = Last(sent[r]).status
        /\ resp[r].kind \in {"success", "terminal"} => ~IsFailure(Last(sent[r]))

\* C2 witness: three instances, start 1: index 1 answered 500, index 2 raised
\* a transport error, index 0 answered 200, which was relayed.
C2_Witness ==
    \E r \in Requests :
        /\ N = 3 /\ start[r] = 1 /\ pc[r] = "done" /\ Len(sent[r]) = 3
        /\ sent[r][1].idx = 1 /\ sent[r][1].status = 500
        /\ sent[r][2].idx = 2 /\ sent[r][2].status = NoStatus
        /\ sent[r][3].idx = 0 /\ sent[r][3].status = 200
        /\ resp[r].kind = "success" /\ resp[r].status = 200

\* C7: under fair scheduling every request whose own upstream calls return
\* gets its response, also while request 1 is stalled on an upstream call.
C7_ResponsiveRequestsFinish ==
    \A r \in Responsive : (pc[r] = "lock_read") ~> (resp[r].kind # "none")

\* C7 witness: request 1 is suspended on an upstream send while another
\* request, which arrived and wrote the pointer meanwhile, has its response.
C7_Witness ==
    \E r \in Responsive :
        /\ pc[1] = "send" /\ Len(sent[1]) >= 1
        /\ pc[r] = "done" /\ resp[r].kind = "aggregate" /\ last_writer = r
        /\ start[r] # start[1] /\ N = 2

\* C9: an aggregate failure in which some candidate answered 429 has status 429.
C9_Any429Gives429 ==
    \A r \in Requests :
        (resp[r].kind = "aggregate" /\ \E k \in DOMAIN sent[r] : sent[r][k].status = 429)
            => resp[r].status = 429

\* C9 witness: three candidates answered 404, a read timeout and 429 (after
\* the timeout), and the aggregate status is 429.
C9_Witness ==
    \E r \in Requests :
        /\ N = 3 /\ resp[r].kind = "aggregate" /\ resp[r].status = 429
        /\ sent[r][1].status = 404
        /\ sent[r][2].error = <<"Read", "Timeout">>
        /\ sent[r][3].status = 429

\* A dict of response headers has the header, in either spelling.
RetryAfterOf(d) ==
    IF "Retry-After" \in DOMAIN d THEN d["Retry-After"] ELSE Get(d, "retry-after")

\* C10: when the aggregate status is 429 and a candidate that answered 429
\* sent a Retry-After header, the aggregate response carries Retry-After with
\* that value.
C10_RetryAfterCopied ==
    \A r \in Requests :
        (resp[r].kind = "aggregate" /\ resp[r].status = 429)
            => \A k \in DOMAIN sent[r] :
                  (sent[r][k].status = 429 /\ "retry-after" \in DOMAIN sent[r][k].headers)
                      => RetryAfterOf(resp[r].headers) = sent[r][k].headers["retry-after"]

(* ------------------------------------------- claims on the aggregate status *)

\* An error name that contains "Timeout", as the class names of httpx spell it.
IsTimeoutName(e) == "Timeout" \in Range(e)

\* Candidate k of request r answered with an HTTP status.
Answered(r, k) == sent[r][k].status # NoStatus

\* C11: an aggregate failure reports 404 if and only if every one of the N
\* candidates answered HTTP 404; a mix of 404 answers and transport failures
\* does not report 404.
C11_NotFoundIffAllNotFound ==
    \A r \in Requests :
        resp[r].kind = "aggregate"
            => (resp[r].status = 404 <=> \A k \in DOMAIN sent[r] : sent[r][k].status = 404)

\* The candidates of request r that answered did not all answer 404 (none
\* answered at all, or one answered something else).
NotAllAnswers404(r) ==
    \/ \A k \in DOMAIN sent[r] : ~Answered(r, k)
    \/ \E k \in DOMAIN sent[r] : Answered(r, k) /\ sent[r][k].status # 404

\* C12: an aggregate failure with no 429 answer, whose HTTP answers are not all
\* 404, and in which a candidate answered 504 or failed with a timeout,
\* reports 504, whatever the other candidates did.
C12_TimeoutGives504 ==
    \A r \in Requests :
        ( /\ resp[r].kind = "aggregate"
          /\ \A k \in DOMAIN sent[r] : sent[r][k].status # 429
          /\ NotAllAnswers404(r)
          /\ \E k \in DOMAIN sent[r] :
                sent[r][k].status = 504 \/ IsTimeoutName(sent[r][k].error) )
            => resp[r].status = 504

\* C12 witness: three candidates answered 401, failed with a read timeout and
\* answered 500, and the aggregate status is 504.
C12_Witness ==
    \E r \in Requests :
        /\ N = 3 /\ resp[r].kind = "aggregate" /\ resp[r].status = 504
        /\ sent[r][1].status = 401
        /\ sent[r][2].error = <<"Read", "Timeout">>
        /\ sent[r][3].status = 500

\* C13: an aggregate failure in which every candidate answered 401 or 403
\* reports 401 when all answered 401 and 403 otherwise, and an aggregate
\* failure reports 401 or 403 only in that case: not when some candidate
\* failed in transport.
C13_AuthOnlyWhenAllAuth ==
    \A r \in Requests :
        resp[r].kind = "aggregate"
            => /\ (\A k \in DOMAIN sent[r] : sent[r][k].status \in {401, 403})
                    => resp[r].status =
                          IF \A k \in DOMAIN sent[r] : sent[r][k].status = 401 THEN 401 ELSE 403
               /\ (/\ \E k \in DOMAIN sent[r] : ~Answered(r, k)
                   /\ \A k \in DOMAIN sent[r] :
                         \/ sent[r][k].status = 401
                         \/ ~Answered(r, k) /\ ~IsTimeoutName(sent[r][k].error))
                    => resp[r].status \notin {401, 403}

\* The rules of the aggregate status, each as it is stated over the N attempts.
Rule404(r) == \A k \in DOMAIN sent[r] : sent[r][k].status = 404

Rule429(r) == \E k \in DOMAIN sent[r] : sent[r][k].status = 429

Rule504(r) ==
    \E k \in DOMAIN sent[r] : sent[r][k].status = 504 \/ IsTimeoutName(sent[r][k].error)

RuleAuth(r) == \A k \in DOMAIN sent[r] : sent[r][k].status \in {401, 403}

\* C14: an aggregate failure to which none of the 404, 429, 504 and 401/403
\* rules applies reports 502, and every aggregate status is one of 401, 403,
\* 404, 429, 502, 504.
C14_Otherwise502 ==
    \A r \in Requests :
        resp[r].kind = "aggregate"
            => /\ resp[r].status \in {401, 403, 404, 429, 502, 504}
               /\ (~Rule404(r) /\ ~Rule429(r) /\ ~Rule504(r) /\ ~RuleAuth(r))
                    => resp[r].status = 502

\* The second half of C14 alone: the range of the aggregate status.
AggregateStatusRange ==
    \A r \in Requests :
        resp[r].kind = "aggregate" => resp[r].status \in {401, 403, 404, 429, 502, 504}

(* ------------------------------------------- claims on the response headers *)

\* The headers that belong to one transport hop.
HopByHopNames == {"connection", "keep-alive", "proxy-authenticate", "proxy-authorization",
                  "te", "trailers", "transfer-encoding", "upgrade"}

\* Response resp[r] carries x-request-id with value id, and, when it is
\* relayed from an upstream, no hop-by-hop header.
CarriesId(r, id) ==
    /\ "x-request-id" \in DOMAIN resp[r].headers
    /\ resp[r].headers["x-request-id"] = id
    /\ resp[r].kind \in {"success", "terminal"}
          => DOMAIN resp[r].headers \cap HopByHopNames = {}

\* C15 as stated: every response carries the inbound x-request-id whenever
\* the header was sent, whatever its value, and a generated id otherwise.
C15_AsStated ==
    \A r \in Requests :
        resp[r].kind # "none"
            => CarriesId(r, IF inbound[r] # None THEN inbound[r] ELSE GeneratedId(r))

\* C15: every response (relayed success, relayed terminal 4xx, aggregate
\* failure) carries an x-request-id header whose value is the inbound
\* request's x-request-id when a non-empty one was sent and a generated id
\* otherwise, whatever x-request-id the upstream sent; and no relayed response
\* carries a hop-by-hop header.
C15_ResponseCarriesRequestId ==
    \A r \in Requests :
        resp[r].kind # "none"
            => CarriesId(r, IF inbound[r] \notin {None, ""} THEN inbound[r] ELSE GeneratedId(r))

\* C15 witness: the caller sent x-request-id, the upstream answered with its
\* own x-request-id and with hop-by-hop headers, and the answer was relayed.
C15_Witness ==
    \E r \in Requests :
        /\ inbound[r] = "client-id"
        /\ resp[r].kind = "success"
        /\ Last(sent[r]).headers = HopHeaders
        /\ resp[r].headers["x-request-id"] = "client-id"

(* ------------------------------------------------- claims on _load_config *)

\* A string value that is missing, empty or made of blanks only.
IsBlank(v) == v = Absent \/ \A i \in DOMAIN v : v[i] = " "

\* The text of a string value, a missing one having none.
Text(v) == IF v = Absent THEN <<>> ELSE v

\* A string value made of slashes only.
IsSlashes(v) == v # Absent /\ v # <<>> /\ \A i \in DOMAIN v : v[i] = "/"

\* A config file the load must refuse: no file, no JSON, no non-empty list of
\* instances, or an entry without endpoint or api_key.
MustRaise(cfg) ==
    \/ cfg.file \in {"missing", "not_json"}
    \/ cfg.instances.type # "list"
    \/ cfg.instances.items = <<>>
    \/ \E i \in DOMAIN cfg.instances.items :
          \/ IsBlank(cfg.instances.items[i].endpoint)
          \/ IsSlashes(cfg.instances.items[i].endpoint)
          \/ IsBlank(cfg.instances.items[i].api_key)

\* C16: once the load is over, it has raised whenever the config file is
\* missing or not JSON, "instances" is missing, empty or not a list, or an
\* entry has an endpoint or api_key that is missing, empty, blank, or an
\* endpoint of slashes only; after a raise no request is ever served; and when
\* the load returns, N = len(CREDENTIALS) >= 1.
C16_BadConfigRaises ==
    /\ (load_state # "loading" /\ MustRaise(config)) => load_state = "raised"
    /\ load_state # "ok" => \A r \in Requests : pc[r] = "idle" /\ resp[r].kind = "none"
    /\ load_state = "ok" => N >= 1 /\ N = Len(CREDENTIALS)

\* C16 witness: a list whose second entry has an endpoint of slashes only was
\* refused.
C16_Witness ==
    /\ load_state = "raised"
    /\ config.file = "json" /\ config.instances.type = "list"
    /\ Len(config.instances.items) = 2
    /\ ~IsBlank(config.instances.items[1].endpoint)
    /\ ~IsSlashes(config.instances.items[1].endpoint)
    /\ ~IsBlank(config.instances.items[1].api_key)
    /\ IsSlashes(config.instances.items[2].endpoint)
    /\ ~IsBlank(config.instances.items[2].api_key)

\* t is s without its leading and trailing blanks.
IsStripOf(t, s) ==
    /\ t = <<>> \/ (t[1] # " " /\ t[Len(t)] # " ")
    /\ \E i \in 0..Len(s) :
          /\ i + Len(t) <= Len(s)
          /\ SubSeq(s, i + 1, i + Len(t)) = t
          /\ \A j \in 1..i : s[j] = " "
          /\ \A j \in (i + Len(t) + 1)..Len(s) : s[j] = " "

\* t is s without its trailing slashes.
IsSlashTrimOf(t, s) ==
    /\ t = <<>> \/ t[Len(t)] # "/"
    /\ Len(t) <= Len(s)
    /\ SubSeq(s, 1, Len(t)) = t
    /\ \A j \in (Len(t) + 1)..Len(s) : s[j] = "/"

\* The strings that occur in the config files, normalized or not.
RECURSIVE Prefixes(_)
Prefixes(s) == IF s = <<>> THEN {<<>>} ELSE {s} \cup Prefixes(SubSeq(s, 1, Len(s) - 1))

Suffixes(s) == {SubSeq(s, i, Len(s)) : i \in 1..(Len(s) + 1)}

Substrings(s) == UNION {Prefixes(t) : t \in Suffixes(s)}

\* pair is the normalized (endpoint, api_key) pair of entry e.
IsPairOf(pair, e) ==
    /\ \E u \in Substrings(Text(e.endpoint)) :
          IsStripOf(u, Text(e.endpoint)) /\ IsSlashTrimOf(pair[1], u)
    /\ IsStripOf(pair[2], Text(e.api_key))

\* The position of the first entry of the list whose normalized pair is pair.
FirstOccurrence(pair, items) ==
    CHOOSE i \in DOMAIN items :
        /\ IsPairOf(pair, items[i])
        /\ \A j \in 1..(i - 1) : ~IsPairOf(pair, items[j])

\* C17: when the load returns, CREDENTIALS holds the normalized (endpoint,
\* api_key) pair of every entry exactly once, in the order of the first
\* occurrences, and N, the modulus of the rotation pointer, is its length.
C17_DedupKeepsFirst ==
    load_state = "ok" =>
        LET items == config.instances.items
        IN  /\ \A i \in DOMAIN items :
                  \E a \in DOMAIN CREDENTIALS :
                      /\ IsPairOf(CREDENTIALS[a], items[i])
                      /\ \A b \in DOMAIN CREDENTIALS : CREDENTIALS[b] = CREDENTIALS[a] => b = a
            /\ \A a \in DOMAIN CREDENTIALS : \E i \in DOMAIN items : IsPairOf(CREDENTIALS[a], items[i])
            /\ \A a, b \in DOMAIN CREDENTIALS :
                  a < b => FirstOccurrence(CREDENTIALS[a], items) < FirstOccurrence(CREDENTIALS[b], items)
            /\ N = Len(CREDENTIALS)
            /\ \A r \in Requests : \A k \in DOMAIN sent[r] : sent[r][k].idx \in 0..(Len(CREDENTIALS) - 1)

\* C17 witness: of three entries the third differs from the first only by
\* blanks and a trailing slash; two instances are left, the first entry's
\* first, and a request has been sent to the second.
C17_Witness ==
    /\ load_state = "ok"
    /\ Len(config.instances.items) = 3
    /\ config.instances.items[1].endpoint = <<"https://a">>
    /\ config.instances.items[2].endpoint = <<"https://b">>
    /\ config.instances.items[3].endpoint = <<" ", "https://a", "/">>
    /\ config.instances.items[1].api_key = <<"k1">>
    /\ config.instances.items[3].api_key = <<"k1", " ">>
    /\ CREDENTIALS = <<<<<<"https://a">>, <<"k1">>>>, <<<<"https://b">>, config.instances.items[2].api_key>>>>
    /\ \E k \in DOMAIN sent[1] : sent[1][k].idx = 1

(* ------------------------------------------------------ claims on the relay *)

\* C18: when the relay of a chosen response (success or terminal 4xx) is
\* over, however it ended (the body was sent to its end, the caller
\* disconnected, an error was raised while relaying), the upstream response
\* is closed.
C18_RelayExitClosesUpstream ==
    \A r \in Requests :
        (pc[r] = "done" /\ resp[r].kind \in {"success", "terminal"}) => ~upstream[r].open

(* ----------------------------------------------- claims on the classification *)

\* The class of a status code, as the table has it.
TableClass(s) ==
    IF s \in {429, 500, 502, 503, 504, 401, 403, 404} THEN "retryable"
    ELSE IF s \in 400..499 THEN "terminal"
    ELSE "success"

\* What request r did with the answer of its k-th candidate: it went on to the
\* next candidate or to the aggregate failure (retryable), it relayed the
\* answer without writing the pointer (terminal), or it relayed the answer
\* and wrote the pointer to the index after the candidate's (success).
Treated(r, k) ==
    IF \/ k < Len(sent[r])
       \/ pc[r] \in {"aread", "aclose", "send", "lock_fail", "write_fail"}
       \/ resp[r].kind = "aggregate"
      THEN "retryable"
    ELSE IF /\ pc[r] \in {"relay", "done"} /\ resp[r].kind = "terminal"
            /\ resp[r].status = sent[r][k].status /\ writes[r] = 0
      THEN "terminal"
    ELSE IF \/ pc[r] \in {"lock_ok", "write_ok"} /\ resp[r].kind = "none"
            \/ /\ pc[r] \in {"relay", "done"} /\ resp[r].kind = "success"
               /\ resp[r].status = sent[r][k].status /\ writes[r] = 1
               /\ rr_pos = (sent[r][k].idx + 1) % N
      THEN "success"
    ELSE "none"

\* C19: every status code 100..599 an upstream answers with is treated as the
\* table says: retried exactly for 429, 500, 502, 503, 504, 401, 403, 404;
\* relayed as terminal for every other 4xx; relayed with a pointer write as a
\* success for every other code (1xx, 2xx, 3xx, 501, 505, ...).
C19_ClassificationMatchesTable ==
    \A r \in Requests : \A k \in DOMAIN sent[r] :
        sent[r][k].status # NoStatus
            => /\ sent[r][k].status \in 100..599
               /\ Treated(r, k) = TableClass(sent[r][k].status)

\* C19 witness: after a first candidate that answered 503, the second answered
\* 505; the 505 was relayed and the pointer written.
C19_Witness ==
    \E r \in Requests :
        /\ N = 2 /\ pc[r] = "done" /\ resp[r].kind = "success" /\ resp[r].status = 505
        /\ Len(sent[r]) = 2 /\ sent[r][1].status = 503 /\ sent[r][2].status = 505
        /\ writes[r] = 1

\* The aggregate response of request r came after every one of the N
\* candidates was tried once and failed.
AggregateAfterAllFailed(r) ==
    /\ Len(sent[r]) = N
    /\ {sent[r][k].idx : k \in DOMAIN sent[r]} = 0..(N - 1)
    /\ \A k \in DOMAIN sent[r] : IsFailure(sent[r][k])

\* C20 as stated: a relayed response has a status >= 400 only when it is a
\* non-retryable 4xx, and an aggregate response comes only after all N
\* candidates failed.
C20_AsStated ==
    \A r \in Requests :
        /\ resp[r].kind \in {"success", "terminal"}
              => /\ resp[r].status = Last(sent[r]).status
                 /\ resp[r].status >= 400 => IsTerminal4xx(resp[r].status)
        /\ resp[r].kind = "aggregate" => AggregateAfterAllFailed(r)

\* C20: a relayed response is the answer of the last candidate tried and never
\* has a status of the retry set; a relayed status >= 400 is a non-retryable
\* 4xx or a 5xx outside the retry set (501, 505, ...: relayed as a success);
\* and an aggregate response comes only after all N candidates were tried and
\* each failed with a retryable status or in transport.
C20_OnlyTerminalOrAggregate ==
    \A r \in Requests :
        /\ resp[r].kind \in {"success", "terminal"}
              => /\ resp[r].status = Last(sent[r]).status
                 /\ ~InRetryTable(resp[r].status)
                 /\ resp[r].status >= 400
                      => \/ IsTerminal4xx(resp[r].status) /\ resp[r].kind = "terminal"
                         \/ resp[r].status >= 500 /\ resp[r].kind = "success"
        /\ resp[r].kind = "aggregate" => AggregateAfterAllFailed(r)

\* C20 witness: of three candidates the first two failed (a 500 and a
\* transport error) and the third answered 501, which was relayed.
C20_Witness ==
    \E r \in Requests :
        /\ N = 3 /\ resp[r].kind = "success" /\ resp[r].status = 501
        /\ Len(sent[r]) = 3 /\ sent[r][1].status = 500
        /\ sent[r][2].error = <<"Connect", "Error">>

(* -------------------------------------------- claims on the attempt loop *)

\* C21: a request never ends with an unhandled error after a transport
\* failure: the k-th candidate's transport failure is recorded as the k-th
\* attempt, with no status and the error's name; the loop then stands at the
\* next candidate, and after the last candidate the request goes to the
\* aggregate failure response.
C21_TransportFailureIsRecorded ==
    \A r \in Requests :
        /\ pc[r] # "raised"
        /\ \A k \in DOMAIN sent[r] :
              sent[r][k].status = NoStatus
                  => /\ k <= Len(attempts[r])
                     /\ attempts[r][k].status = NoStatus
                     /\ attempts[r][k].error = sent[r][k].error
                     /\ (k = Len(sent[r]) /\ k < N) => pc[r] = "send" /\ attempt_num[r] = k + 1
                     /\ k = N => /\ pc[r] \in {"lock_fail", "write_fail", "done"}
                                 /\ resp[r].kind \in {"none", "aggregate"}
                                 /\ pc[r] = "done" => resp[r].kind = "aggregate"

\* C21 witness: the first candidate failed to connect, the second and last
\* timed out, and the request ended in the aggregate response.
C21_Witness ==
    \E r \in Requests :
        /\ N = 2 /\ pc[r] = "done" /\ resp[r].kind = "aggregate"
        /\ sent[r][1].error = <<"Connect", "Error">>
        /\ sent[r][2].error = <<"Read", "Timeout">>
        /\ Len(resp[r].attempts) = 2

\* C22: while an attempt is being sent no upstream response of the request is
\* open and every earlier attempt has been classified and recorded; an open
\* upstream response is the answer to the last attempt sent; so at most one
\* attempt is in flight or open at a time.
C22_OneAttemptAtATime ==
    \A r \in Requests :
        /\ pc[r] = "send"
              => /\ ~upstream[r].open
                 /\ Len(sent[r]) = attempt_num[r] - 1
                 /\ Len(attempts[r]) = attempt_num[r] - 1
        /\ upstream[r].open
              => /\ Len(sent[r]) = attempt_num[r]
                 /\ upstream[r].status = Last(sent[r]).status
                 /\ Len(attempts[r]) = attempt_num[r] - 1

\* C22 witness: the second attempt is being sent after the first answered a
\* retryable status and its response was read (or not) and closed.
C22_Witness ==
    \E r \in Requests :
        /\ pc[r] = "send" /\ attempt_num[r] = 2
        /\ sent[r][1].status = 500
        /\ ~upstream[r].open

\* C23: a request reads app.state.rr_pos once, under the lock, before its
\* first upstream call, and never again.
C23_ReadsPointerOnce ==
    \A r \in Requests :
        /\ reads[r] <= 1
        /\ reads[r] = 1 => start[r] # -1
        /\ pc[r] \in {"body", "send"} => reads[r] = 1

(* ------------------------------------------- claims on concurrent requests *)

\* C24: the candidates a request contacts follow the order of its own
\* snapshot, whatever the other requests write meanwhile; rr_pos is the value
\* written by the request that wrote last ((i + 1) mod N of its successful
\* index, or (start + 1) mod N after an aggregate failure); a request that
\* ended in a terminal 4xx has written nothing.
C24_LastWriteWins ==
    \A r \in Requests :
        /\ order_indices[r] # <<>>
              => order_indices[r] = [off \in 1..N |-> (start[r] + off - 1) % N]
        /\ \A k \in DOMAIN sent[r] : sent[r][k].idx = (start[r] + k - 1) % N
        /\ (last_writer = r /\ resp[r].kind = "success") => rr_pos = (resp[r].idx + 1) % N
        /\ (last_writer = r /\ resp[r].kind = "aggregate") => rr_pos = (start[r] + 1) % N
        /\ resp[r].kind = "terminal" => writes[r] = 0
        /\ pc[r] = "done" /\ resp[r].kind # "terminal" => writes[r] = 1

\* C24 witness: two requests read the same start 0 of three instances; the
\* second succeeded on instance 1 and wrote 2, the first then failed on all
\* three and wrote 1: rr_pos is 1, the last value written.
C24_Witness ==
    /\ N = 3 /\ start[1] = 0 /\ start[2] = 0
    /\ pc[1] = "done" /\ pc[2] = "done"
    /\ resp[2].kind = "success" /\ resp[2].idx = 1
    /\ resp[1].kind = "aggregate" /\ last_writer = 1
    /\ rr_pos = 1

\* The step in which request r writes the pointer after all candidates failed.
AggregateWrite(r) == pc[r] = "write_fail" /\ pc'[r] = "done"

\* C25 as stated: in every interleaving, an aggregate-failure write leaves
\* rr_pos one step (mod N) past the value it held just before the write.
C25_AsStated ==
    [][\A r \in Requests : AggregateWrite(r) => rr_pos' = (rr_pos + 1) % N]_vars

\* C28: the aggregate payload lists N attempt records, the k-th being the
\* record of the k-th candidate tried (its status, or its transport error),
\* and its next_start_index is (start + 1) mod N, the value this request
\* wrote, whatever the other requests have written.
C28_AggregatePayload ==
    \A r \in Requests :
        resp[r].kind = "aggregate"
            => /\ Len(resp[r].attempts) = N
               /\ Len(sent[r]) = N
               /\ \A k \in 1..N :
                     /\ sent[r][k].idx = (start[r] + k - 1) % N
                     /\ resp[r].attempts[k].status = sent[r][k].status
                     /\ resp[r].attempts[k].error = sent[r][k].error
               /\ resp[r].next_start_index = (start[r] + 1) % N

\* C28 witness: two requests read start 0 of three instances; the first failed
\* on all three and reported next_start_index 1; the second succeeded on
\* instance 1 and wrote 2 after it.
C28_Witness ==
    /\ N = 3 /\ start[1] = 0 /\ start[2] = 0
    /\ resp[1].kind = "aggregate" /\ Len(resp[1].attempts) = 3
    /\ resp[1].next_start_index = 1
    /\ resp[2].kind = "success" /\ resp[2].idx = 1 /\ last_writer = 2
    /\ rr_pos = 2

(* ------------------------------------------- claims on relay and disconnect *)

\* Request r starts an upstream attempt in this step.
StartsAttempt(r) == Len(sent'[r]) > Len(sent[r])

\* C29 as stated: once a response has been chosen for relay no further
\* upstream attempt is started, and once the inbound caller has disconnected
\* no further upstream attempt is started for that request.
C29_NoAttemptAfterRelayOrDisconnect ==
    [][\A r \in Requests :
          (pc[r] = "relay" \/ disconnected[r]) => ~StartsAttempt(r)]_vars

\* C30 as stated: while the chosen upstream body is relayed, the request's
\* httpx.AsyncClient is still open.
C30_ClientOpenDuringRelay ==
    \A r \in Requests : pc[r] = "relay" => client_open[r]

(* ------------------------------------------- claims on the upstream request *)

\* The api_key values of the configured instances.
InstanceKeys == {Join(CREDENTIALS[i][2]) : i \in DOMAIN CREDENTIALS}

\* The k-th request built for request r was built for instance sent[r][k].idx.
InstanceOf(r, k) == CREDENTIALS[sent[r][k].idx + 1]

\* C26: each attempt's request carries, under the configured header name,
\* the api_key of the instance it goes to, and no other header of it holds an
\* instance key; it has no hop-by-hop header; no header of it named
\* "authorization" or named as the configured header (names compared without
\* regard to case) holds anything but that api_key.
C26_OnlyInstanceCredential ==
    \A r \in Requests : \A k \in DOMAIN outbound[r] :
        LET hs   == outbound[r][k].headers
            name == Join(HEADER_NAME)
            key  == Join(InstanceOf(r, k)[2])
        IN  /\ name \in DOMAIN hs /\ hs[name] = key
            /\ \A h \in DOMAIN hs :
                  /\ hs[h] \in InstanceKeys => h = name
                  /\ Lower(h) \notin HOP_BY_HOP
                  /\ Lower(h) \in {"authorization", Lower(name)} => h = name

\* C27: every attempt of a request is built with the inbound method, the
\* inbound body as read before the loop, the inbound path and query after the
\* endpoint of its instance, and the base headers with the credential of its
\* instance and the request id added; two attempts of a request differ in
\* the endpoint and the credential only.
C27_SameRequestEveryAttempt ==
    \A r \in Requests :
        /\ pc[r] \in {"send", "aread", "aclose"} => body[r] = request[r].body
        /\ \A k \in DOMAIN outbound[r] :
              LET o    == outbound[r][k]
                  cred == InstanceOf(r, k)
                  name == Join(HEADER_NAME)
              IN  /\ o.method = request[r].method
                  /\ o.content = request[r].body
                  /\ o.url = Join(cred[1]) \o PathAndQuery(request[r])
                  /\ DOMAIN o.headers = DOMAIN base_headers[r] \cup {name, "x-request-id"}
                  /\ \A h \in DOMAIN o.headers \ {name} :
                        o.headers[h] = IF h \in DOMAIN base_headers[r]
                                         THEN base_headers[r][h] ELSE req_id[r]
                  /\ \A j \in DOMAIN outbound[r] :
                        /\ outbound[r][j].method = o.method
                        /\ outbound[r][j].content = o.content
                        /\ \A h \in DOMAIN o.headers \ {name} :
                              outbound[r][j].headers[h] = o.headers[h]

\* C27 witness: a POST with a body, a query string and an x-api-key header
\* went to both instances of a deployment, with a different credential each time.
C27_Witness ==
    /\ N = 2 /\ Len(outbound[1]) = 2
    /\ request[1].query # "" /\ request[1].body = "payload"
    /\ outbound[1][2].content = "payload"
    /\ "x-api-key" \in DOMAIN request[1].headers
    /\ outbound[1][1].url # outbound[1][2].url
    /\ outbound[1][1].headers[Join(HEADER_NAME)] # outbound[1][2].headers[Join(HEADER_NAME)]

====
